---- MODULE Spec2Model ----
(***************************************************************************)
(* Model of the ASV results migration system (asv/migrations.py):          *)
(* the Executor (registry discovery, target resolution, pending lookup,    *)
(* migrate_file), the AddBenchParam operation, and the two converters      *)
(* between the column form and the object form of a results file.          *)
(*                                                                         *)
(* Representation                                                          *)
(*  - a migration name "0002_whatever" is the tuple its split('_') gives,  *)
(*    <<"0002", "whatever">>; int() of the prefix is the table int(_);     *)
(*  - a benchmark name is the tuple of its characters, so that the prefix  *)
(*    match of re.match can be computed;                                   *)
(*  - a Python dict is a function; a missing key is a key outside DOMAIN;  *)
(*  - JSON null / Python None stored in a record field is Null;            *)
(*  - a raised exception is the string naming it ("" = no exception).      *)
(***************************************************************************)
EXTENDS Integers, Sequences, FiniteSets, TLC

\* ------------------------------------------------------------------ bounds
MaxValues == 2      \* longest `values` list of an AddBenchParam
MaxRecords == 2     \* longest record list of a benchmark in an input file
MaxFiles == 2       \* files one Executor migrates in a run

\* ------------------------------------------------------- generic helpers
None == "<None>"    \* Python None where a string is expected
Null == "null"      \* None / JSON null stored as a field value

Range(s) == {s[i] : i \in 1..Len(s)}

SeqsUpTo(S, n) == UNION {[1..k -> S] : k \in 0..n}

IsPrefix(p, s) == Len(p) <= Len(s) /\ SubSeq(s, 1, Len(p)) = p

put(d, k, v) == [x \in (DOMAIN d) \cup {k} |-> IF x = k THEN v ELSE d[x]]

pop(d, k) == [x \in (DOMAIN d) \ {k} |-> d[x]]

setdefault(d, k, v) == IF k \in DOMAIN d THEN d ELSE put(d, k, v)

RECURSIVE pop_all(_, _)
pop_all(d, columns) ==
    IF columns = <<>> THEN d ELSE pop_all(pop(d, Head(columns)), Tail(columns))

insert(list, index, x) ==      \* list.insert(index, x), index 0-based
    SubSeq(list, 1, index) \o <<x>> \o SubSeq(list, index + 1, Len(list))

\* ------------------------------------------------------ module constants
NO_MIGRATION_INDEX == <<"0000">>
\* an initial index that is the sentinel again
INITIAL_MIGRATION_INDEX_sentinel == <<"0000">>

INITIAL_MIGRATION_INDEX == <<"0001">>
INITIAL_MIGRATION == INITIAL_MIGRATION_INDEX \o <<"initial">>
NoMarker == <<>>    \* the file has no MIGRATIONS_KEY entry
NoTarget == <<>>    \* Executor(..., target=None)

\* int() of a zero-padded decimal index
int(s) ==
    CASE s = "0000" -> 0
      [] s = "0001" -> 1
      [] s = "0002" -> 2
      [] s = "0003" -> 3
      [] s = "0004" -> 4
      [] s = "0007" -> 7

get_migration_index(migration_name) == int(migration_name[1])

get_file_migration_index(data) ==
    LET migration_name == IF data.octobus_migration_version = NoMarker
                          THEN NO_MIGRATION_INDEX
                          ELSE data.octobus_migration_version
    IN get_migration_index(migration_name)

\* --------------------------------------------------- Executor.__init__
\* sorted(..., key=get_migration_index): a stable sort
RECURSIVE sorted(_)
sorted(s) ==
    IF s = <<>> THEN <<>>
    ELSE LET x == s[Len(s)]
             rest == sorted(SubSeq(s, 1, Len(s) - 1))
             key(e) == get_migration_index(e)
         IN SelectSeq(rest, LAMBDA e : key(e) <= key(x)) \o <<x>>
              \o SelectSeq(rest, LAMBDA e : key(e) > key(x))

\* check_indexes without the conflict test
RECURSIVE check_indexes_no_conflict(_, _, _)
check_indexes_no_conflict(names, seen, last_index) ==
    IF names = <<>> THEN ""
    ELSE LET index == get_migration_index(Head(names)) IN
         IF last_index # index - 1
         THEN "UserError: Migration indexes should be contiguous"
         ELSE check_indexes_no_conflict(Tail(names), seen \cup {index}, index)

\* the loop "Check for conflicting indexes"; seen is the key set of `seen`
RECURSIVE check_indexes(_, _, _)
check_indexes(names, seen, last_index) ==
    IF names = <<>> THEN ""
    ELSE LET index == get_migration_index(Head(names)) IN
         IF index \in seen THEN "UserError: Conflicting migrations index"
         ELSE IF last_index # index - 1
              THEN "UserError: Migration indexes should be contiguous"
              ELSE check_indexes(Tail(names), seen \cup {index}, index)

\* Executor_init resolving a missing target to the first unit
Executor_init_first(found_files, target_name) ==
    LET all == sorted(found_files) IN
    IF all = <<>>
    THEN [error |-> "NoMigrationFilesFound", all_migrations |-> all, target |-> NoTarget]
    ELSE IF target_name # NoTarget /\ target_name \notin Range(all)
    THEN [error |-> "UnknownTarget", all_migrations |-> all, target |-> NoTarget]
    ELSE [error |-> check_indexes(all, {}, 0),
          all_migrations |-> all,
          target |-> IF target_name = NoTarget THEN all[1] ELSE target_name]

Executor_init(found_files, target_name) ==
    LET all == sorted(found_files) IN
    IF all = <<>>
    THEN [error |-> "NoMigrationFilesFound", all_migrations |-> all, target |-> NoTarget]
    ELSE IF target_name # NoTarget /\ target_name \notin Range(all)
    THEN [error |-> "UnknownTarget", all_migrations |-> all, target |-> NoTarget]
    ELSE [error |-> check_indexes(all, {}, 0),
          all_migrations |-> all,
          target |-> IF target_name = NoTarget THEN all[Len(all)] ELSE target_name]

all_migrations_indexes(all) == {get_migration_index(all[i]) : i \in 1..Len(all)}

\* ------------------------------ Executor.get_pending_migrations_names
\* pending_loop with the lower bound included
RECURSIVE pending_loop_inclusive(_, _, _)
pending_loop_inclusive(all, target_index, file_migration_idx) ==
    IF all = <<>> THEN <<>>
    ELSE LET index == get_migration_index(Head(all))
             rest == pending_loop_inclusive(Tail(all), target_index, file_migration_idx)
         IN IF target_index >= index /\ index >= file_migration_idx
            THEN <<Head(all)>> \o rest
            ELSE rest

RECURSIVE pending_loop(_, _, _)
pending_loop(all, target_index, file_migration_idx) ==
    IF all = <<>> THEN <<>>
    ELSE LET index == get_migration_index(Head(all))
             rest == pending_loop(Tail(all), target_index, file_migration_idx)
         IN IF target_index >= index /\ index > file_migration_idx
            THEN <<Head(all)>> \o rest
            ELSE rest

\* get_pending_migrations_names without the unknown-marker test
get_pending_migrations_names_unchecked(all, tgt, file_contents) ==
    LET file_migration_idx == get_file_migration_index(file_contents) IN
    IF file_migration_idx = 0
    THEN [error |-> "NotReadyForMigrationsError", pending |-> <<>>]
    ELSE [error |-> "",
          pending |-> pending_loop(all, get_migration_index(tgt), file_migration_idx)]

get_pending_migrations_names(all, tgt, file_contents) ==
    LET file_migration_idx == get_file_migration_index(file_contents) IN
    IF file_migration_idx = 0
    THEN [error |-> "NotReadyForMigrationsError", pending |-> <<>>]
    ELSE IF file_migration_idx \notin all_migrations_indexes(all)
    THEN [error |-> "MigrationDoesNotExist", pending |-> <<>>]
    ELSE [error |-> "",
          pending |-> pending_loop(all, get_migration_index(tgt), file_migration_idx)]

\* ----------------------------------------------------------- AddBenchParam
PyNone == "py:None"     \* the Python value None given as a parameter value

\* asv.benchmark._repr_no_address on the values used here: repr()
repr_no_address(item) ==
    CASE item = PyNone -> "None"
      [] item = "py:1" -> "1"
      [] item = "py:2" -> "2"
      [] item = "py:'a'" -> "'a'"

Truthy(x) == x # None /\ x # ""

\* AddBenchParam.__init__ on the keyword arguments kw
AddBenchParam_init(kw) ==
    IF Cardinality(Range(kw.values)) < Len(kw.values)
    THEN [error |-> "UserError: Values must be unique"]
    ELSE IF kw.default # PyNone /\ kw.default \notin Range(kw.values)
    THEN [error |-> "UserError: Wrong default value"]
    ELSE [error |-> "",
          name |-> kw.name,
          values |-> [i \in 1..Len(kw.values) |-> repr_no_address(kw.values[i])],
          default |-> repr_no_address(kw.default),
          targets |-> kw.targets,
          insert_after |-> kw.insert_after,
          insert_before |-> kw.insert_before]

\* re.compile(targets).match(name) for a literal pattern: a prefix match
\* is_benchmark_targeted with a pattern that matches every benchmark
is_benchmark_targeted_all(self, benchmark_name) == TRUE

is_benchmark_targeted(self, benchmark_name) == IsPrefix(self.targets, benchmark_name)

\* the three for/else loops of update_param_names; index is 0-based
RECURSIVE scan_both(_, _, _)
scan_both(self, bench_param_names, index) ==
    IF index >= Len(bench_param_names)
    THEN [names |-> bench_param_names, error |-> "UserError: insert_after param not found"]
    ELSE LET param_name == bench_param_names[index + 1] IN
         IF param_name = self.name
         THEN [names |-> bench_param_names, error |-> ""]
         ELSE IF param_name = self.insert_after
         THEN IF index + 1 >= Len(bench_param_names)
              THEN [names |-> bench_param_names, error |-> "IndexError"]
              ELSE IF bench_param_names[index + 2] = self.insert_before
              THEN [names |-> insert(bench_param_names, index + 1, self.name), error |-> ""]
              ELSE [names |-> bench_param_names, error |-> "UserError: are not adjacent"]
         ELSE scan_both(self, bench_param_names, index + 1)

RECURSIVE scan_after(_, _, _)
scan_after(self, bench_param_names, index) ==
    IF index >= Len(bench_param_names)
    THEN [names |-> bench_param_names, error |-> "UserError: insert_after param not found"]
    ELSE LET param_name == bench_param_names[index + 1] IN
         IF param_name = self.name
         THEN [names |-> bench_param_names, error |-> ""]
         ELSE IF param_name = self.insert_after
         THEN [names |-> insert(bench_param_names, index + 1, self.name), error |-> ""]
         ELSE scan_after(self, bench_param_names, index + 1)

RECURSIVE scan_before(_, _, _)
scan_before(self, bench_param_names, index) ==
    IF index >= Len(bench_param_names)
    THEN [names |-> bench_param_names, error |-> "UserError: insert_before param not found"]
    ELSE LET param_name == bench_param_names[index + 1] IN
         IF param_name = self.name
         THEN [names |-> bench_param_names, error |-> ""]
         ELSE IF param_name = self.insert_before
         THEN [names |-> insert(bench_param_names, index, self.name), error |-> ""]
         ELSE scan_before(self, bench_param_names, index + 1)

\* update_param_names leaving the list as it is
update_param_names_keep(self, bench_param_names) ==
    [names |-> bench_param_names, error |-> ""]

\* update_param_names appending every absent name, whatever the neighbours
update_param_names_append(self, bench_param_names) ==
    IF self.name \in Range(bench_param_names)
    THEN [names |-> bench_param_names, error |-> ""]
    ELSE [names |-> Append(bench_param_names, self.name), error |-> ""]

update_param_names(self, bench_param_names) ==
    IF ~Truthy(self.insert_after) /\ ~Truthy(self.insert_before)
       /\ self.name \notin Range(bench_param_names)
    THEN [names |-> Append(bench_param_names, self.name), error |-> ""]
    ELSE IF Truthy(self.insert_after) /\ Truthy(self.insert_before)
    THEN scan_both(self, bench_param_names, 0)
    ELSE IF Truthy(self.insert_after)
    THEN scan_after(self, bench_param_names, 0)
    ELSE IF Truthy(self.insert_before)
    THEN scan_before(self, bench_param_names, 0)
    ELSE [names |-> bench_param_names, error |-> ""]

useless_columns ==
    <<"stats_ci_99_a", "stats_ci_99_b", "stats_q_25", "stats_q_75",
      "stats_number", "stats_repeat", "samples", "profile">>

\* new_result without the removal of the statistics of a replica that was
\* never measured
new_result_keep_stats(self, result, value) ==
    IF value = self.default
    THEN put(put(result, "params", setdefault(result["params"], self.name, self.default)),
             "version", Null)
    ELSE put(put(put(result, "params", put(result["params"], self.name, value)),
                 "result", Null),
             "version", Null)

\* the body of "for value in self.values": the record appended for `value`
new_result(self, result, value) ==
    IF value = self.default
    THEN put(put(result, "params", setdefault(result["params"], self.name, self.default)),
             "version", Null)
    ELSE put(pop_all(put(put(result, "params", put(result["params"], self.name, value)),
                         "result", Null),
                     useless_columns),
             "version", Null)

\* expand with the two loops exchanged: for each value, every record
expand_value_major(self, bench) ==
    [k \in 1..(Len(self.values) * Len(bench)) |->
        new_result(self, bench[((k - 1) % Len(bench)) + 1],
                   self.values[((k - 1) \div Len(bench)) + 1])]

\* "for result in bench: for value in self.values": the new record list
RECURSIVE expand(_, _)
expand(self, bench) ==
    IF bench = <<>> THEN <<>>
    ELSE [i \in 1..Len(self.values) |-> new_result(self, Head(bench), self.values[i])]
           \o expand(self, Tail(bench))

\* iteration order of a dict keyed by benchmark name
b_mt == <<"m", ".", "t">>
b_mut == <<"m", "u", ".", "t">>
b_z == <<"z">>
BenchOrder == <<b_mt, b_mut, b_z>>
items(d) == SelectSeq(BenchOrder, LAMBDA b : b \in DOMAIN d)

\* "for name, bench in octobus_results.items()" of forwards
RECURSIVE forwards_loop(_, _, _, _, _)
forwards_loop(self, names, octobus_results, param_names, new_octobus_results) ==
    IF names = <<>>
    THEN [param_names |-> param_names, new_octobus_results |-> new_octobus_results,
          error |-> ""]
    ELSE LET name == Head(names) IN
         IF ~is_benchmark_targeted(self, name)
         THEN forwards_loop(self, Tail(names), octobus_results, param_names,
                            put(new_octobus_results, name, octobus_results[name]))
         ELSE LET pn == setdefault(param_names, name, <<>>)
                  upd == update_param_names(self, pn[name])
              IN IF upd.error # ""
                 THEN [param_names |-> pn, new_octobus_results |-> new_octobus_results,
                       error |-> upd.error]
                 ELSE forwards_loop(self, Tail(names), octobus_results,
                                    put(pn, name, upd.names),
                                    put(new_octobus_results, name,
                                        expand(self, octobus_results[name])))

\* AddBenchParam.forwards: the state after the call and the exception raised
forwards(self, state) ==
    LET r == forwards_loop(self, items(state.octobus_results), state.octobus_results,
                           state.bench_param_names, <<>>)
    IN IF r.error # ""
       THEN [state |-> [state EXCEPT !.bench_param_names = r.param_names],
             error |-> r.error]
       ELSE [state |-> [state EXCEPT !.bench_param_names = r.param_names,
                                     !.octobus_results = r.new_octobus_results],
             error |-> ""]

\* -------------------------------------------------------------- converters
\* A cell of the column form is [list |-> TRUE, v |-> <<...>>] for a JSON
\* list and [list |-> FALSE, v |-> x] for a scalar.
Min(a, b) == IF a <= b THEN a ELSE b

RECURSIVE concat(_)
concat(ss) == IF ss = <<>> THEN <<>> ELSE Head(ss) \o concat(Tail(ss))

\* keys of OrderedDict(zip(keys, ...)): first-seen order, no duplicates
RECURSIVE distinct(_)
distinct(s) ==
    IF s = <<>> THEN <<>>
    ELSE LET d == distinct(SubSeq(s, 1, Len(s) - 1)) IN
         IF s[Len(s)] \in Range(d) THEN d ELSE Append(d, s[Len(s)])

\* OrderedDict(zip(keys, vals)): a later pair overwrites an earlier one
zip_dict(keys, vals) ==
    LET n == Min(Len(keys), Len(vals)) IN
    [k \in {keys[i] : i \in 1..n} |->
        vals[CHOOSE i \in 1..n : keys[i] = k /\ \A j \in (i + 1)..n : keys[j] # k]]

zip_keys(keys, vals) == distinct(SubSeq(keys, 1, Min(Len(keys), Len(vals))))

\* the product enumerated with the first list varying fastest
RECURSIVE product_first_fastest(_)
product_first_fastest(lists) ==
    IF lists = <<>> THEN << <<>> >>
    ELSE LET rest == product_first_fastest(Tail(lists))
             h == Head(lists)
         IN concat([j \in 1..Len(rest) |-> [i \in 1..Len(h) |-> <<h[i]>> \o rest[j]]])

\* itertools.product(*lists): row-major, the last list varies fastest
RECURSIVE product(_)
product(lists) ==
    IF lists = <<>> THEN << <<>> >>
    ELSE LET rest == product(Tail(lists))
             h == Head(lists)
         IN concat([i \in 1..Len(h) |-> [j \in 1..Len(rest) |-> <<h[i]>> \o rest[j]]])

\* the record built for combination number `index` (0-based) of one benchmark
explode_result(result_columns, results_as_object, combo, index) ==
    LET fields == {f \in Range(result_columns) :
                      f # "params" /\ f \in DOMAIN results_as_object}
    IN [f \in fields \cup {"params"} |->
          IF f = "params" THEN combo
          ELSE LET corresponding_values == results_as_object[f] IN
               IF corresponding_values.list
               THEN IF index < Len(corresponding_values.v)
                    THEN corresponding_values.v[index + 1]
                    ELSE Null
               ELSE corresponding_values.v]

\* the body of "for bench_name, result_lines in results.items()" for a
\* benchmark of the catalog: its record list, or the exception raised
explode_bench(param_names, result_columns, result_lines) ==
    IF ~(Len(result_columns) >= Len(result_lines))
    THEN [error |-> "AssertionError", records |-> <<>>]
    ELSE LET results_as_object == zip_dict(result_columns, result_lines) IN
         IF "params" \notin DOMAIN results_as_object
         THEN [error |-> "KeyError", records |-> <<>>]
         ELSE LET raw == results_as_object["params"].v IN
              IF ~(Len(param_names) >= Len(raw))
              THEN [error |-> "AssertionError", records |-> <<>>]
              ELSE LET keys == zip_keys(param_names, raw)
                       params == zip_dict(param_names, raw)
                       explosion == product([i \in 1..Len(keys) |-> params[keys[i]]])
                   IN [error |-> "",
                       records |->
                         [i \in 1..Len(explosion) |->
                            explode_result(result_columns, results_as_object,
                                [k \in Range(keys) |->
                                    explosion[i][CHOOSE n \in 1..Len(keys) : keys[n] = k]],
                                i - 1)]]

RECURSIVE to_octobus_loop(_, _, _, _)
to_octobus_loop(all_benchmarks_data, old_format_data, names, new) ==
    IF names = <<>> THEN [data |-> new, error |-> ""]
    ELSE LET bench_name == Head(names) IN
         IF bench_name \notin DOMAIN all_benchmarks_data
         THEN to_octobus_loop(all_benchmarks_data, old_format_data, Tail(names), new)
         ELSE LET param_names == all_benchmarks_data[bench_name]
                  new1 == [new EXCEPT !.bench_param_names = put(@, bench_name, param_names)]
                  e == explode_bench(param_names, old_format_data.result_columns,
                                     old_format_data.results[bench_name])
              IN IF e.error # "" THEN [data |-> new1, error |-> e.error]
                 ELSE to_octobus_loop(all_benchmarks_data, old_format_data, Tail(names),
                        IF e.records = <<>> THEN new1
                        ELSE [new1 EXCEPT !.octobus_results = put(@, bench_name, e.records)])

\* to_octobus_results raising for a benchmark the catalog does not have
to_octobus_results_strict(all_benchmarks_data, old_format_data) ==
    IF DOMAIN old_format_data.results \subseteq DOMAIN all_benchmarks_data
    THEN to_octobus_loop(all_benchmarks_data, old_format_data,
                         items(old_format_data.results),
                         [old_format_data EXCEPT !.octobus_results = <<>>,
                                                 !.bench_param_names = <<>>])
    ELSE [data |-> [old_format_data EXCEPT !.octobus_results = <<>>,
                                           !.bench_param_names = <<>>],
          error |-> "KeyError"]

\* to_octobus_results: the new data and the exception raised.  Every list of
\* new.bench_param_names is the catalog's own list object (no copy is made).
to_octobus_results(all_benchmarks_data, old_format_data) ==
    to_octobus_loop(all_benchmarks_data, old_format_data, items(old_format_data.results),
                    [old_format_data EXCEPT !.octobus_results = <<>>,
                                            !.bench_param_names = <<>>])

SCALAR_COLUMNS == {"version", "started_at", "duration"}

\* ordered-set insertion: asv_params[name][param_value] = None
add_value(values, v) == IF v \in Range(values) THEN values ELSE Append(values, v)

\* "for name in bench_param_names[benchmark]" for one record
RECURSIVE params_loop(_, _, _)
params_loop(names, result, asv_params) ==
    IF names = <<>> THEN asv_params
    ELSE LET name == Head(names)
             p1 == IF name \in Range(asv_params.keys) THEN asv_params
                   ELSE [asv_params EXCEPT !.keys = Append(@, name),
                                           !.vals = put(@, name, <<>>)]
         IN IF asv_params.error # "" THEN asv_params
            ELSE IF name \notin DOMAIN result["params"]
            THEN [p1 EXCEPT !.error = "KeyError"]
            ELSE params_loop(Tail(names), result,
                    [p1 EXCEPT !.vals = put(@, name, add_value(p1.vals[name],
                                                              result["params"][name]))])

\* "for column in result_columns" for one record; acc holds asv_results (its
\* key order and its cells) and asv_params
RECURSIVE columns_loop(_, _, _, _, _)
columns_loop(columns, result, data, benchmark, acc) ==
    IF columns = <<>> \/ acc.asv_params.error # "" THEN acc
    ELSE LET column == Head(columns)
             acc1 == IF column # "params" THEN acc
                     ELSE IF benchmark \notin DOMAIN data.bench_param_names
                     THEN [acc EXCEPT !.asv_params.error = "KeyError"]
                     ELSE [acc EXCEPT !.asv_params =
                             params_loop(data.bench_param_names[benchmark], result, @)]
             order1 == IF column \in Range(acc1.order) THEN acc1.order
                       ELSE Append(acc1.order, column)
         IN IF acc1.asv_params.error # "" THEN acc1
            ELSE IF column \in SCALAR_COLUMNS
            THEN columns_loop(Tail(columns), result, data, benchmark,
                    [acc1 EXCEPT !.order = order1,
                                 !.cells = put(@, column,
                                     [list |-> FALSE,
                                      v |-> IF column \in DOMAIN result
                                            THEN result[column] ELSE Null])])
            ELSE IF column \notin DOMAIN result
            THEN acc1
            ELSE columns_loop(Tail(columns), result, data, benchmark,
                    [acc1 EXCEPT !.order = order1,
                                 !.cells = put(@, column,
                                     [list |-> TRUE,
                                      v |-> IF column = "params" THEN <<>>
                                            ELSE Append(setdefault(acc1.cells, column,
                                                     [list |-> TRUE, v |-> <<>>])[column].v,
                                                   result[column])])])

RECURSIVE results_loop(_, _, _, _)
results_loop(results, data, benchmark, acc) ==
    IF results = <<>> THEN acc
    ELSE results_loop(Tail(results), data, benchmark,
                      columns_loop(data.result_columns, Head(results), data, benchmark, acc))

\* the body of "for benchmark, results in octobus_results.items()"
bench_to_asv(data, benchmark) ==
    LET acc == results_loop(data.octobus_results[benchmark], data, benchmark,
                    [order |-> <<>>, cells |-> <<>>,
                     asv_params |-> [keys |-> <<>>, vals |-> <<>>, error |-> ""]])
        params == [i \in 1..Len(acc.asv_params.keys) |->
                      acc.asv_params.vals[acc.asv_params.keys[i]]]
        order == IF "params" \in Range(acc.order) THEN acc.order
                 ELSE Append(acc.order, "params")
    IN [error |-> acc.asv_params.error,
        line |-> [i \in 1..Len(order) |->
                    IF order[i] = "params" THEN [list |-> TRUE, v |-> params]
                    ELSE acc.cells[order[i]]]]

\* octobus_results_to_asv_results: out_data and the exception raised
octobus_results_to_asv_results(data) ==
    IF DOMAIN data.octobus_results = {}
    THEN [error |-> "UserError: non-empty octobus_results", data |-> data]
    ELSE LET names == items(data.octobus_results)
             bad == {i \in 1..Len(names) : bench_to_asv(data, names[i]).error # ""}
         IN IF bad # {}
            THEN [error |-> bench_to_asv(data, names[CHOOSE i \in bad :
                                                       \A j \in bad : i <= j]).error,
                  data |-> data]
            ELSE [error |-> "",
                  data |-> [data EXCEPT !.results =
                              [b \in DOMAIN data.octobus_results |->
                                  bench_to_asv(data, b).line]]]

\* ------------------------------------------------ Executor: loading, pending
\* Migration.__init__ run by the module body of a migration file: the
\* AddBenchParam constructors of `operations`, in order; the first failing
\* constructor raises
RECURSIVE load_operations(_)
load_operations(body) ==
    IF body = <<>> THEN [error |-> "", operations |-> <<>>]
    ELSE LET op == AddBenchParam_init(Head(body))
             rest == load_operations(Tail(body))
         IN IF op.error # "" THEN [error |-> op.error, operations |-> <<>>]
            ELSE IF rest.error # "" THEN rest
            ELSE [error |-> "", operations |-> <<op>> \o rest.operations]

\* get_migration_instance for each pending name, with the cache of loaded
\* modules threaded through
RECURSIVE instances_loop(_, _, _)
instances_loop(pending_names, files, cache) ==
    IF pending_names = <<>> THEN [error |-> "", pending |-> <<>>, cache |-> cache]
    ELSE LET name == Head(pending_names) IN
         IF name \in DOMAIN cache
         THEN LET rest == instances_loop(Tail(pending_names), files, cache) IN
              [rest EXCEPT !.pending = <<[name |-> name, operations |-> cache[name]]>> \o @]
         ELSE LET m == load_operations(files[name]) IN
              IF m.error # ""
              THEN [error |-> m.error, pending |-> <<>>, cache |-> cache]
              ELSE LET rest == instances_loop(Tail(pending_names), files,
                                              put(cache, name, m.operations))
                   IN [rest EXCEPT !.pending =
                          <<[name |-> name, operations |-> m.operations]>> \o @]

get_pending_migrations(all, tgt, files, cache, file_contents) ==
    LET names == get_pending_migrations_names(all, tgt, file_contents) IN
    IF names.error # ""
    THEN [error |-> names.error, names |-> <<>>, pending |-> <<>>, cache |-> cache]
    ELSE LET r == instances_loop(names.pending, files, cache) IN
         [error |-> r.error, names |-> names.pending,
          pending |-> IF r.error = "" THEN r.pending ELSE <<>>, cache |-> r.cache]

\* the operations of the pending migrations, the last migration first
RECURSIVE operations_of_last_first(_)
operations_of_last_first(pending_migrations) ==
    IF pending_migrations = <<>> THEN <<>>
    ELSE LET m == Head(pending_migrations) IN
         operations_of_last_first(Tail(pending_migrations))
           \o [i \in 1..Len(m.operations) |->
                 [migration |-> m.name, index |-> i, operation |-> m.operations[i]]]

\* the operations migrate_file still has to run, in the order of
\* "for migration in pending: for operation in self.operations"
RECURSIVE operations_of(_)
operations_of(pending_migrations) ==
    IF pending_migrations = <<>> THEN <<>>
    ELSE LET m == Head(pending_migrations) IN
         [i \in 1..Len(m.operations) |->
             [migration |-> m.name, index |-> i, operation |-> m.operations[i]]]
           \o operations_of(Tail(pending_migrations))

\* ------------------------------------------------------------------ inputs
u1 == <<"0001", "initial">>
u2 == <<"0002", "whatever">>
u2c == <<"0002", "conflict">>
u3 == <<"0003", "whatever">>
u7 == <<"0007", "whatever">>
MigrationFiles == {u1, u2, u2c, u3}
GlobOrder == <<u3, u2c, u1, u2>>
Discoveries == {SelectSeq(GlobOrder, LAMBDA u : u \in S) : S \in SUBSET MigrationFiles}
Targets == {NoTarget, u1, u2, u2c, u3, <<"unknown">>}

kw(name, values, default, targets, insert_after, insert_before) ==
    [name |-> name, values |-> values, default |-> default, targets |-> targets,
     insert_after |-> insert_after, insert_before |-> insert_before]

\* bodies of the migration files 0002_* and 0003_*
Bodies2 ==
    { <<kw("p", <<"py:1">>, "py:1", <<>>, None, None)>>,
      <<kw("p", <<"py:1", "py:2">>, "py:1", <<>>, None, None)>>,
      <<kw("p", <<"py:1", "py:2">>, PyNone, <<>>, None, None)>>,
      <<kw("p", <<"py:1">>, "py:1", <<"m", ".">>, None, None),
        kw("q", <<PyNone>>, PyNone, <<"m", "u">>, None, None)>>,
      <<kw("p", <<"py:1", "py:1">>, "py:1", <<>>, None, None)>>,
      <<kw("p", <<"py:2">>, "py:2", <<>>, "x", None)>>,
      <<kw("p", <<"py:1">>, "py:1", <<>>, "x", "y")>> }
Bodies3 ==
    { <<>>,
      <<kw("q", <<PyNone>>, PyNone, <<>>, None, None),
        kw("r", <<"py:'a'">>, "py:'a'", <<>>, "q", None)>> }
Disks == {[u \in MigrationFiles |->
              IF u = u1 THEN <<>> ELSE IF u = u3 THEN b3 ELSE b2] :
          b2 \in Bodies2, b3 \in Bodies3}

\* every valid or invalid AddBenchParam(name="p", ...) within the bounds
RawValues == {PyNone, "py:1", "py:2"}
AllKw ==
    {kw("p", vs, d, t, ia, ib) :
        vs \in SeqsUpTo(RawValues, MaxValues), d \in RawValues,
        t \in {<<>>, <<"m", ".">>, <<"m", "u">>},
        ia \in {None, "x"}, ib \in {None, "y"}}
AllOperations == {AddBenchParam_init(k) : k \in {k \in AllKw : AddBenchParam_init(k).error = ""}}

L(v) == [list |-> TRUE, v |-> v]
S(v) == [list |-> FALSE, v |-> v]

result_columns ==
    <<"result", "params", "version", "started_at", "duration",
      "stats_ci_99_a", "stats_ci_99_b", "stats_q_25", "stats_q_75",
      "stats_number", "stats_repeat", "samples", "profile">>

\* the benchmark catalog (benchmarks.json): benchmark -> param_names
Catalog == (b_mt :> <<"x">>) @@ (b_mut :> <<>>)

ResultAt(i) == CASE i = 1 -> "0.5" [] i = 2 -> "0.7" [] i = 3 -> Null [] OTHER -> "0.9"
XAt(i) == CASE i = 1 -> "'a'" [] i = 2 -> "'b'" [] i = 3 -> "'c'" [] OTHER -> "'d'"

\* a never-migrated file in column form: n values of x for benchmark m.t
column_line(b, n) ==
    IF b = b_mt THEN <<L([i \in 1..n |-> ResultAt(i)]), L(<<[i \in 1..n |-> XAt(i)]>>)>>
    ELSE IF b = b_mut
    THEN <<L(<<"0.9">>), L(<<>>), S("v1"), S("t0"), S("d0"), L(<<"a0">>), L(<<"b0">>),
           L(<<"q1">>), L(<<"q3">>), L(<<"n0">>), L(<<"r0">>), L(<<"s0">>), L(<<"f0">>)>>
    ELSE <<L(<<"0.3">>), L(<<>>)>>

ColumnFile(benchmarks, n) ==
    [octobus_migration_version |-> NoMarker,
     result_columns |-> result_columns,
     results |-> [b \in benchmarks |-> column_line(b, n)],
     octobus_results |-> <<>>,
     bench_param_names |-> <<>>]

ColumnFiles ==
    {ColumnFile({b_mt}, n) : n \in 1..MaxRecords}
        \cup {ColumnFile({b_mt, b_mut}, MaxRecords), ColumnFile({b_z}, 1),
              ColumnFile({b_mt, b_z}, 1)}

\* records of a migrated file in object form
rec_a == [params |-> [x |-> "'a'"], result |-> "0.5"]
rec_b ==
    [params |-> [x |-> "'b'"], result |-> "0.7", version |-> "v1",
     started_at |-> "t0", duration |-> "d0",
     stats_ci_99_a |-> "a0", stats_ci_99_b |-> "b0", stats_q_25 |-> "q1",
     stats_q_75 |-> "q3", stats_number |-> "n0", stats_repeat |-> "r0",
     samples |-> "s0", profile |-> "f0"]
rec_c == [params |-> [x |-> "'c'", p |-> "2"], result |-> "0.9", version |-> "v1"]
rec_m == [params |-> [x |-> "'a'", y |-> "1"], result |-> "0.3", version |-> "v1"]
Records == <<rec_a, rec_b, rec_c>>
\* the two records of a benchmark with dimensions x (one value) and y (two)
rec_y1 == [params |-> [x |-> "'a'", y |-> "1"], result |-> "0.5", version |-> "v1"]
rec_y2 == [params |-> [x |-> "'a'", y |-> "2"], result |-> "0.7", version |-> "v1"]

ObjectFile(marker, names, records) ==
    [octobus_migration_version |-> marker,
     result_columns |-> result_columns,
     results |-> <<>>,
     octobus_results |-> (b_mt :> records) @@ (b_mut :> <<rec_m>>),
     bench_param_names |-> (b_mt :> names) @@ (b_mut :> <<"x", "y">>)]

ObjectFiles ==
    {ObjectFile(u1, <<"x">>, SubSeq(Records, 1, n)) : n \in 1..MaxRecords}
        \cup {ObjectFile(m, <<"x">>, <<rec_a>>) : m \in {u2, u3, u7}}

Files == ColumnFiles \cup ObjectFiles

\* record lists of at most MaxRecords records, in the order of Records
RecordLists ==
    {SelectSeq(Records, LAMBDA r : r \in R) :
        R \in {R \in SUBSET Range(Records) : Cardinality(R) <= MaxRecords}}
NameLists ==
    {<<>>, <<"x">>, <<"x", "y">>, <<"x", "z", "y">>, <<"y">>, <<"z">>,
     <<"x", "p">>, <<"p", "x">>, <<"y", "p">>, <<"x", "p", "y">>, <<"x", "y", "p">>,
     <<"y", "x", "y", "x">>}

\* --------------------------------------------------------------- the state
VARIABLES
    pc,                  \* "new", "failed", "ready", "applying", "returned", "raised"
    found,               \* glob.glob of the migrations folder
    target_name,         \* the `target` argument of Executor
    disk,                \* migration file -> the operations its body declares
    all_migrations,      \* Executor.all_migrations (keys, in order)
    target,              \* Executor.target
    all_benchmarks_data, \* Executor.all_benchmarks_data: benchmark -> param_names
    migrations_modules,  \* Executor._migrations_modules: name -> operations
    nfiles,              \* files handed to migrate_file so far
    data,                \* <<the file given to migrate_file>>
    file_contents,       \* <<the local file_contents of migrate_file>>
    aliased,             \* benchmarks whose bench_param_names list is the catalog's
    signal,              \* what the first pending lookup raised
    pending,             \* names of the pending migrations
    todo,                \* operations still to run
    applied,             \* operations run so far: <<migration, index>>
    last,                \* <<the last forwards call: operation, state before>>
    new_contents,        \* <<the value migrate_file returned>>
    journal,             \* what Migrate.run has done: events in order
    error                \* the exception that left __init__ or migrate_file

vars == <<pc, found, target_name, disk, all_migrations, target, all_benchmarks_data,
          migrations_modules, nfiles, data, file_contents, aliased, signal, pending,
          todo, applied, last, new_contents, journal, error>>

executor_vars == <<found, target_name, disk, all_migrations, target>>
call_vars == <<data, file_contents, aliased, signal, pending, todo, applied, last,
               new_contents>>

Init ==
    /\ pc = "new"
    /\ found \in Discoveries
    /\ target_name \in Targets
    /\ disk \in Disks
    /\ all_migrations = <<>>
    /\ target = NoTarget
    /\ all_benchmarks_data = Catalog
    /\ migrations_modules = <<>>
    /\ nfiles = 0
    /\ data = <<>>
    /\ file_contents = <<>>
    /\ aliased = {}
    /\ signal = ""
    /\ pending = <<>>
    /\ todo = <<>>
    /\ applied = <<>>
    /\ last = <<>>
    /\ new_contents = <<>>
    /\ error = ""
    /\ journal = <<>>

\* Executor.__init__
Construct ==
    /\ pc = "new"
    /\ \E e \in {Executor_init(found, target_name)} :
       /\ all_migrations' = e.all_migrations
       /\ target' = e.target
       /\ error' = e.error
       /\ pc' = IF e.error = "" THEN "ready" ELSE "failed"
    /\ UNCHANGED <<found, target_name, disk, all_benchmarks_data, migrations_modules,
                   nfiles>>
    /\ UNCHANGED call_vars
    /\ UNCHANGED journal

\* lines 275-281 of migrate_file: the pending lookup, and for a file that is
\* not ready the conversion to the object form and the second lookup
migrate_file_pending(all, tgt, files, cache, catalog, f) ==
    LET first == get_pending_migrations(all, tgt, files, cache, f) IN
    IF first.error # "NotReadyForMigrationsError"
    THEN [signal |-> first.error, file_contents |-> f, aliased |-> {}, p |-> first]
    ELSE LET conv == to_octobus_results(catalog, f)
             fc == [conv.data EXCEPT !.octobus_migration_version = INITIAL_MIGRATION]
         IN [signal |-> first.error,
             file_contents |-> fc,
             aliased |-> DOMAIN fc.bench_param_names,
             p |-> IF conv.error # ""
                   THEN [error |-> conv.error, names |-> <<>>, pending |-> <<>>,
                         cache |-> first.cache]
                   ELSE get_pending_migrations(all, tgt, files, first.cache, fc)]

\* migrate_file up to the loop over the pending migrations
MigrateFile(f) ==
    /\ pc = "ready"
    /\ nfiles < MaxFiles
    /\ nfiles' = nfiles + 1
    /\ data' = <<f>>
    /\ \E m \in {migrate_file_pending(all_migrations, target, disk, migrations_modules,
                                      all_benchmarks_data, f)} :
          /\ signal' = m.signal
          /\ file_contents' = <<m.file_contents>>
          /\ aliased' = m.aliased
          /\ migrations_modules' = m.p.cache
          /\ pending' = m.p.names
          /\ error' = m.p.error
          /\ todo' = operations_of(m.p.pending)
          /\ pc' = IF m.p.error # "" THEN "raised"
                   ELSE IF Len(m.p.pending) = 0 THEN "returned" ELSE "applying"
          /\ new_contents' = IF m.p.error = "" /\ Len(m.p.pending) = 0
                             THEN <<m.file_contents>> ELSE <<>>
    /\ applied' = <<>>
    /\ last' = <<>>
    /\ UNCHANGED executor_vars
    /\ UNCHANGED journal
    /\ UNCHANGED all_benchmarks_data

\* one operation.forwards(state) of Migration.apply
ApplyOperation ==
    /\ pc = "applying"
    /\ todo # <<>>
    /\ \E r \in {forwards(Head(todo).operation, file_contents[1])} :
          /\ file_contents' = <<r.state>>
          /\ all_benchmarks_data' =
                [b \in DOMAIN all_benchmarks_data |->
                    IF b \in aliased /\ b \in DOMAIN r.state.bench_param_names
                    THEN r.state.bench_param_names[b]
                    ELSE all_benchmarks_data[b]]
          /\ last' = <<[operation |-> Head(todo).operation, before |-> file_contents[1],
                        error |-> r.error]>>
          /\ error' = r.error
          /\ pc' = IF r.error # "" THEN "raised" ELSE "applying"
          /\ todo' = IF r.error # "" THEN todo ELSE Tail(todo)
          /\ applied' = Append(applied, <<Head(todo).migration, Head(todo).index>>)
    /\ UNCHANGED executor_vars
    /\ UNCHANGED journal
    /\ UNCHANGED <<migrations_modules, nfiles, data, aliased, signal, pending, new_contents>>

\* migrate_file_end leaving the marker of the file as it was
migrate_file_end_keep_marker(contents, tgt) ==
    [file_contents |-> contents, conv |-> octobus_results_to_asv_results(contents)]

\* lines 289-294 of migrate_file: set the marker, convert to the column form
migrate_file_end(contents, tgt) ==
    LET fc == [contents EXCEPT !.octobus_migration_version = tgt] IN
    [file_contents |-> fc, conv |-> octobus_results_to_asv_results(fc)]

\* the end of migrate_file, once every pending migration has been applied
MigrateEnd ==
    /\ pc = "applying"
    /\ todo = <<>>
    /\ \E e \in {migrate_file_end(file_contents[1], target)} :
          /\ file_contents' = <<e.file_contents>>
          /\ error' = e.conv.error
          /\ pc' = IF e.conv.error # "" THEN "raised" ELSE "returned"
          /\ new_contents' = IF e.conv.error # "" THEN <<>> ELSE <<e.conv.data>>
    /\ UNCHANGED executor_vars
    /\ UNCHANGED journal
    /\ UNCHANGED <<all_benchmarks_data, migrations_modules, nfiles, data, aliased, signal,
                   pending, todo, applied, last>>

\* "for migration in pending: migration.apply(file_contents)" as a whole
RECURSIVE apply_pending(_, _)
apply_pending(operations, state) ==
    IF operations = <<>> THEN [state |-> state, error |-> ""]
    ELSE LET r == forwards(Head(operations).operation, state) IN
         IF r.error # "" THEN r ELSE apply_pending(Tail(operations), r.state)

\* migrate_file as one call of an Executor whose catalog is `catalog` and
\* whose module cache is empty: the value returned and the exception raised
migrate_file(all, tgt, files, catalog, f) ==
    LET m == migrate_file_pending(all, tgt, files, <<>>, catalog, f) IN
    IF m.p.error # "" THEN [error |-> m.p.error, new_contents |-> <<>>]
    ELSE IF Len(m.p.pending) = 0 THEN [error |-> "", new_contents |-> <<m.file_contents>>]
    ELSE LET a == apply_pending(operations_of(m.p.pending), m.file_contents) IN
         IF a.error # "" THEN [error |-> a.error, new_contents |-> <<>>]
         ELSE LET e == migrate_file_end(a.state, tgt) IN
              IF e.conv.error # "" THEN [error |-> e.conv.error, new_contents |-> <<>>]
              ELSE [error |-> "", new_contents |-> <<e.conv.data>>]

\* the caller moves on to the next file with the same Executor
NextFile ==
    /\ pc \in {"returned", "raised"}
    /\ nfiles < MaxFiles
    /\ pc' = "ready"
    /\ data' = <<>>
    /\ file_contents' = <<>>
    /\ aliased' = {}
    /\ signal' = ""
    /\ pending' = <<>>
    /\ todo' = <<>>
    /\ applied' = <<>>
    /\ last' = <<>>
    /\ new_contents' = <<>>
    /\ error' = ""
    /\ UNCHANGED executor_vars
    /\ UNCHANGED journal
    /\ UNCHANGED <<all_benchmarks_data, migrations_modules, nfiles>>

Next ==
    \/ Construct
    \/ \E f \in Files : MigrateFile(f)
    \/ ApplyOperation
    \/ MigrateEnd
    \/ NextFile

Spec == Init /\ [][Next]_vars

\* ---- one AddBenchParam.forwards on a migrated file: every operation within
\* ---- the bounds against every object-form state within the bounds
InitOp ==
    /\ pc = "applying"
    /\ found = <<u2, u1>>
    /\ target_name = NoTarget
    /\ disk \in {[u \in MigrationFiles |-> IF u = u2 THEN <<k>> ELSE <<>>] :
                    k \in {k \in AllKw : AddBenchParam_init(k).error = ""}}
    /\ all_migrations = <<u1, u2>>
    /\ target = u2
    /\ all_benchmarks_data = Catalog
    /\ migrations_modules = (u2 :> <<AddBenchParam_init(disk[u2][1])>>)
    /\ nfiles = 1
    /\ data \in {<<ObjectFile(u1, names, records)>> :
                    names \in NameLists, records \in RecordLists}
                 \cup {<<ObjectFile(u1, <<"x", "y">>, <<rec_y1, rec_y2>>)>>}
    /\ file_contents = data
    /\ aliased = {}
    /\ signal = ""
    /\ pending = <<u2>>
    /\ todo = operations_of(<<[name |-> u2, operations |-> migrations_modules[u2]]>>)
    /\ applied = <<>>
    /\ last = <<>>
    /\ new_contents = <<>>
    /\ error = ""
    /\ journal = <<>>

NextOp ==
    \/ ApplyOperation
    \/ MigrateEnd

SpecOp == InitOp /\ [][NextOp]_vars

\* ---- the two converters alone: one conversion, then the opposite one
\* values of the vector columns, by record number
VectorValues ==
    [result |-> <<"0.5", "0.7", Null, "0.9">>,
     stats_ci_99_a |-> <<"a1", "a2", "a3", "a4">>,
     stats_ci_99_b |-> <<"b1", "b2", "b3", "b4">>,
     stats_q_25 |-> <<"q1", "q2", "q3", "q4">>,
     stats_q_75 |-> <<"p1", "p2", "p3", "p4">>,
     stats_number |-> <<"n1", "n2", "n3", "n4">>,
     stats_repeat |-> <<"r1", "r2", "r3", "r4">>,
     samples |-> <<"s1", "s2", "s3", "s4">>,
     profile |-> <<"f1", "f2", "f3", "f4">>]
ScalarValues == [version |-> "v1", started_at |-> "t0", duration |-> "d0"]

\* parameter dimensions of benchmark m.t: names and candidate values
Dimensions ==
    { <<>>,
      <<[name |-> "x", values |-> <<"'a'">>]>>,
      <<[name |-> "x", values |-> <<"'a'", "'b'">>]>>,
      <<[name |-> "x", values |-> <<"'a'">>], [name |-> "y", values |-> <<"1", "2">>]>>,
      <<[name |-> "x", values |-> <<"'a'", "'b'">>],
        [name |-> "y", values |-> <<"1", "2">>]>> }
ColumnCounts == {2, 3, 5, 6, 13}

RECURSIVE count(_)
count(dims) == IF dims = <<>> THEN 1 ELSE Len(Head(dims).values) * count(Tail(dims))
names_of(dims) == [i \in 1..Len(dims) |-> dims[i].name]

\* the line of a benchmark in column form: its first ncols columns, the vector
\* columns holding n values
conv_line(dims, ncols, n) ==
    [c \in 1..ncols |->
        LET column == result_columns[c] IN
        IF column = "params" THEN L([i \in 1..Len(dims) |-> dims[i].values])
        ELSE IF column \in DOMAIN ScalarValues THEN S(ScalarValues[column])
        ELSE L(SubSeq(VectorValues[column], 1, n))]

ConvColumnState(dims, ncols, n, others) ==
    [octobus_migration_version |-> NoMarker,
     result_columns |-> result_columns,
     results |-> [b \in {b_mt} \cup others |->
                     IF b = b_mt THEN conv_line(dims, ncols, n)
                     ELSE conv_line(<<>>, 2, 1)],
     octobus_results |-> <<>>,
     bench_param_names |-> <<>>]

\* the record of combination number k (from 1) of dims, row-major
conv_record(dims, ncols, k, scalar_at) ==
    LET stride(j) == count(SubSeq(dims, j + 1, Len(dims)))
        fields == {result_columns[c] : c \in 1..ncols}
    IN [f \in fields |->
          IF f = "params"
          THEN [nm \in Range(names_of(dims)) |->
                  LET j == CHOOSE j \in 1..Len(dims) : dims[j].name = nm IN
                  dims[j].values[(((k - 1) \div stride(j)) % Len(dims[j].values)) + 1]]
          ELSE IF f \in DOMAIN ScalarValues
          THEN IF f = "version" /\ scalar_at # 0 /\ k = scalar_at
               THEN "v2" ELSE ScalarValues[f]
          ELSE VectorValues[f][k]]

ConvObjectState(dims, ncols, ks, scalar_at, others) ==
    [octobus_migration_version |-> NoMarker,
     result_columns |-> result_columns,
     results |-> <<>>,
     octobus_results |->
        [b \in {b_mt} \cup others |->
            IF b = b_mt
            THEN [i \in 1..Len(ks) |-> conv_record(dims, ncols, ks[i], scalar_at)]
            ELSE <<conv_record(<<>>, 2, 1, 0)>>],
     bench_param_names |->
        [b \in {b_mt} \cup others |-> IF b = b_mt THEN names_of(dims) ELSE <<>>]]

\* inputs of the converters, each with the catalog it is read against: full
\* cartesian expansions, expansions with the last combination missing, object
\* states with the records in another order or a version that varies
ConvInputs ==
    {[state |-> ConvColumnState(dims, ncols, n, others),
      catalog |-> (b_mt :> names_of(dims)) @@ (b_mut :> <<>>)] :
        dims \in Dimensions, ncols \in ColumnCounts, others \in {{}, {b_mut}},
        n \in {0, 1, 2, 3, 4}}
    \cup
    {[state |-> ConvObjectState(dims, ncols, ks, scalar_at, others),
      catalog |-> (b_mt :> names_of(dims)) @@ (b_mut :> <<>>)] :
        dims \in Dimensions, ncols \in ColumnCounts, others \in {{}, {b_mut}},
        ks \in {<<1>>, <<1, 2>>, <<2, 1>>, <<1, 2, 3>>, <<1, 2, 3, 4>>, <<1, 3, 2, 4>>},
        scalar_at \in {0, 1, 2}}

InitConv ==
    /\ pc = "convert"
    /\ \E input \in ConvInputs :
          /\ data = <<input.state>>
          /\ all_benchmarks_data = input.catalog
    /\ file_contents = <<>>
    /\ new_contents = <<>>
    /\ applied = <<>>
    /\ error = ""
    /\ journal = <<>>
    /\ found = <<>>
    /\ target_name = NoTarget
    /\ disk = <<>>
    /\ all_migrations = <<>>
    /\ target = NoTarget
    /\ migrations_modules = <<>>
    /\ nfiles = 0
    /\ aliased = {}
    /\ signal = ""
    /\ pending = <<>>
    /\ todo = <<>>
    /\ last = <<>>

\* the outcome of a conversion: the first one fills file_contents, the second
\* one new_contents
Converted(function, r) ==
    /\ applied' = Append(applied, function)
    /\ error' = r.error
    /\ pc' = IF r.error # "" THEN "raised"
             ELSE IF applied = <<>> THEN "convert" ELSE "converted"
    /\ file_contents' = IF r.error = "" /\ applied = <<>> THEN <<r.data>> ELSE file_contents
    /\ new_contents' = IF r.error = "" /\ applied # <<>> THEN <<r.data>> ELSE new_contents
    /\ UNCHANGED executor_vars
    /\ UNCHANGED journal
    /\ UNCHANGED <<all_benchmarks_data, migrations_modules, nfiles, data, aliased, signal,
                   pending, todo, last>>

\* to_octobus_results(all_benchmarks_data, ...) of a column-form input, or of
\* what octobus_results_to_asv_results returned
ToOctobus ==
    /\ pc = "convert"
    /\ \/ applied = <<>> /\ DOMAIN data[1].octobus_results = {}
       \/ applied = <<"octobus_results_to_asv_results">>
    /\ \E r \in {to_octobus_results(all_benchmarks_data,
                                    IF applied = <<>> THEN data[1] ELSE file_contents[1])} :
          Converted("to_octobus_results", r)

\* octobus_results_to_asv_results of an object-form input, or of what
\* to_octobus_results returned
ToAsv ==
    /\ pc = "convert"
    /\ \/ applied = <<>> /\ DOMAIN data[1].octobus_results # {}
       \/ applied = <<"to_octobus_results">>
    /\ \E r \in {octobus_results_to_asv_results(
                    IF applied = <<>> THEN data[1] ELSE file_contents[1])} :
          Converted("octobus_results_to_asv_results", r)

NextConv ==
    \/ ToOctobus
    \/ ToAsv

SpecConv == InitConv /\ [][NextConv]_vars

\* ---- Migrate.run: one Executor, every results file in turn, then the
\* ---- regeneration of benchmarks.json
UserErrors ==
    {"UserError: Conflicting migrations index",
     "UserError: Migration indexes should be contiguous",
     "UserError: Values must be unique", "UserError: Wrong default value",
     "UserError: insert_after param not found",
     "UserError: insert_before param not found",
     "UserError: are not adjacent", "UserError: non-empty octobus_results"}

\* except_clause with every exception taken by the UserError clause
except_clause_skip(exception) == "warning"

\* the except clause of the loop body that takes an exception raised by
\* migrate_file: "exit" (log.error, exit(1)), "warning" (log.warning,
\* continue), or none ("propagate": the exception leaves Migrate.run)
except_clause(exception) ==
    IF exception \in {"NoMigrationFilesFound", "MigrationDoesNotExist", "UnknownTarget"}
    THEN "exit"
    ELSE IF exception \in UserErrors THEN "warning"
    ELSE "propagate"

event(kind) == [event |-> kind, file |-> nfiles]

\* a step of Migrate.run outside migrate_file: it logs or writes, and moves on
RunStep(from, kind, to) ==
    /\ pc = from
    /\ journal' = Append(journal, event(kind))
    /\ pc' = to
    /\ UNCHANGED executor_vars
    /\ UNCHANGED call_vars
    /\ UNCHANGED <<all_benchmarks_data, migrations_modules, nfiles, error>>

\* Executor(...) is constructed outside the try: its exception leaves run
ConstructorFailed == RunStep("failed", "propagate", "propagated")

\* util.write_json(path, new_data, ...)
WriteJson == RunStep("returned", "write_json", "written")

ExitOnError == except_clause(error) = "exit" /\ RunStep("raised", "exit", "exited")

SkipFile == except_clause(error) = "warning" /\ RunStep("raised", "warning", "skipped")

Propagate ==
    except_clause(error) = "propagate" /\ RunStep("raised", "propagate", "propagated")

\* the next iteration of the loop over the files
ContinueLoop ==
    /\ pc \in {"written", "skipped"}
    /\ pc' = "ready"
    /\ data' = <<>>
    /\ file_contents' = <<>>
    /\ aliased' = {}
    /\ signal' = ""
    /\ pending' = <<>>
    /\ todo' = <<>>
    /\ applied' = <<>>
    /\ last' = <<>>
    /\ new_contents' = <<>>
    /\ error' = ""
    /\ UNCHANGED executor_vars
    /\ UNCHANGED <<all_benchmarks_data, migrations_modules, nfiles, journal>>

\* no file is left: Run.run(conf, bench=['just-discover'], pull=False)
Regenerate == RunStep("ready", "regenerate", "done")

NextBatch ==
    \/ Construct
    \/ \E f \in Files : MigrateFile(f)
    \/ ApplyOperation
    \/ MigrateEnd
    \/ WriteJson
    \/ ExitOnError
    \/ SkipFile
    \/ Propagate
    \/ ConstructorFailed
    \/ ContinueLoop
    \/ Regenerate

SpecBatch == Init /\ [][NextBatch]_vars

\* ================================================================ properties
index_of(name) == get_migration_index(name)
FoundIndexes == {index_of(found[i]) : i \in 1..Len(found)}
HasDuplicate == \E i, j \in 1..Len(found) : i # j /\ index_of(found[i]) = index_of(found[j])
HasGap == FoundIndexes # 1..Cardinality(FoundIndexes)
TargetResolves == found # <<>> /\ (target_name = NoTarget \/ target_name \in Range(found))
Called == data # <<>>
FileIndex == get_file_migration_index(data[1])

Returned == pc = "returned" /\ new_contents # <<>>
extends(params, original) ==
    \A k \in DOMAIN original : k \in DOMAIN params /\ params[k] = original[k]

\* C1: forward migration never loses a measurement: every record with a
\* non-null result that a migrated (object-form) file holds before migrate_file
\* is still there in the returned state, for the same benchmark, with the same
\* result and with parameters that extend the original ones.
C1_NoMeasurementLost ==
    (Returned /\ FileIndex # 0) =>
        \A b \in DOMAIN data[1].octobus_results :
            \A i \in 1..Len(data[1].octobus_results[b]) :
                LET r == data[1].octobus_results[b][i] IN
                r.result # Null =>
                    /\ b \in DOMAIN new_contents[1].octobus_results
                    /\ \E j \in 1..Len(new_contents[1].octobus_results[b]) :
                          LET n == new_contents[1].octobus_results[b][j] IN
                          /\ n.result = r.result
                          /\ extends(n.params, r.params)

\* C2: for a file whose marker index f is registered, the pending lookup gives
\* exactly the registered migrations with f < index <= target index, in
\* ascending index order; it gives the empty list when f >= target index.
C2_PendingIsTheInterval ==
    (Called /\ signal = "") =>
        LET t == index_of(target)
            expected == {m \in Range(all_migrations) :
                            FileIndex < index_of(m) /\ index_of(m) <= t}
        IN /\ Range(pending) = expected
           /\ Len(pending) = Cardinality(expected)
           /\ \A i, j \in 1..Len(pending) :
                 i < j => index_of(pending[i]) < index_of(pending[j])
           /\ (FileIndex >= t => pending = <<>>)

C2_Witness ==
    /\ Called /\ signal = ""
    /\ Len(pending) = 2
    /\ FileIndex = 1

Forwarded == last # <<>> /\ last[1].error = ""
LastOp == last[1].operation
Before == last[1].before
After == file_contents[1]
DeclaredDefault == LastOp.default # repr_no_address(PyNone)
PrefixMatches(pattern, benchmark) ==
    /\ Len(pattern) <= Len(benchmark)
    /\ \A i \in 1..Len(pattern) : benchmark[i] = pattern[i]
TargetedBenchmarks ==
    {b \in DOMAIN Before.octobus_results : PrefixMatches(LastOp.targets, b)}
replica(b, i, j) == After.octobus_results[b][(i - 1) * Len(LastOp.values) + j]
others(record) == DOMAIN record \ {"params", "version"}

\* C3: forwards with a declared default, on a targeted benchmark: the replica
\* of a record for the candidate equal to the default keeps the result and
\* every other field of the original, and a value of the parameter that was
\* already there; every other replica has the candidate as the parameter's
\* value, a null result and none of the eight statistics fields; every replica
\* has a null version.
C3_DefaultReplicaKeepsMeasurement ==
    (Forwarded /\ DeclaredDefault) =>
        \A b \in TargetedBenchmarks :
            \A i \in 1..Len(Before.octobus_results[b]), j \in 1..Len(LastOp.values) :
                LET o == Before.octobus_results[b][i]
                    n == replica(b, i, j)
                    kept == DOMAIN o.params \ {LastOp.name}
                IN /\ n.version = Null
                   /\ \A k \in kept : k \in DOMAIN n.params /\ n.params[k] = o.params[k]
                   /\ DOMAIN n.params = DOMAIN o.params \cup {LastOp.name}
                   /\ IF LastOp.values[j] = LastOp.default
                      THEN /\ n.result = o.result
                           /\ others(n) = others(o)
                           /\ \A f \in others(o) : n[f] = o[f]
                           /\ n.params[LastOp.name] =
                                 IF LastOp.name \in DOMAIN o.params
                                 THEN o.params[LastOp.name] ELSE LastOp.default
                      ELSE /\ n.params[LastOp.name] = LastOp.values[j]
                           /\ n.result = Null
                           /\ DOMAIN n \cap
                                 {"stats_ci_99_a", "stats_ci_99_b", "stats_q_25",
                                  "stats_q_75", "stats_number", "stats_repeat",
                                  "samples", "profile"} = {}

C3_Witness ==
    /\ Forwarded
    /\ LastOp.values = <<"1", "2">>
    /\ LastOp.default = "2"
    /\ Before.octobus_results[b_mt] = <<rec_b, rec_c>>
    /\ replica(b_mt, 1, 1).result = Null
    /\ "samples" \notin DOMAIN replica(b_mt, 1, 1)
    /\ replica(b_mt, 1, 2).samples = "s0"
    /\ replica(b_mt, 2, 2).params.p = "2"
    /\ replica(b_mt, 2, 1).params.p = "1"

\* C4: after forwards every targeted benchmark has original_count x
\* len(values) records: for each original record in the original order, one
\* replica per candidate value in the order of `values`; every non-targeted
\* benchmark has as many records as before; no benchmark appears or disappears.
C4_RecordCountAndOrder ==
    Forwarded =>
        /\ DOMAIN After.octobus_results = DOMAIN Before.octobus_results
        /\ \A b \in DOMAIN Before.octobus_results :
              LET old == Before.octobus_results[b]
                  new == After.octobus_results[b]
              IN IF b \in TargetedBenchmarks
                 THEN /\ Len(new) = Len(old) * Len(LastOp.values)
                      /\ \A i \in 1..Len(old), j \in 1..Len(LastOp.values) :
                            LET o == old[i]
                                n == replica(b, i, j)
                            IN /\ \A k \in DOMAIN o.params \ {LastOp.name} :
                                     n.params[k] = o.params[k]
                               /\ \/ n.params[LastOp.name] = LastOp.values[j]
                                  \/ /\ LastOp.values[j] = LastOp.default
                                     /\ LastOp.name \in DOMAIN o.params
                                     /\ n.params[LastOp.name] = o.params[LastOp.name]
                 ELSE Len(new) = Len(old)

C4_Witness ==
    /\ Forwarded
    /\ LastOp.values = <<"2", "1">>
    /\ LastOp.targets = <<"m", ".">>
    /\ Before.octobus_results[b_mt] = <<rec_a, rec_b>>
    /\ Len(After.octobus_results[b_mt]) = 4
    /\ Len(After.octobus_results[b_mut]) = 1
    /\ replica(b_mt, 1, 2).params = [x |-> "'a'", p |-> "1"]
    /\ replica(b_mt, 2, 1).params = [x |-> "'b'", p |-> "2"]

AppliedOperations == {migrations_modules[applied[i][1]][applied[i][2]] : i \in 1..Len(applied)}
InitialNamesKnown == Called /\ (FileIndex # 0 \/ nfiles = 1)
InitialNames(b) ==
    IF FileIndex # 0 THEN data[1].bench_param_names[b] ELSE Catalog[b]

\* C5: forwards leaves every benchmark that the prefix match of `targets` does
\* not select unchanged: the same record list, field for field, and the same
\* parameter-name list; over the operations migrate_file has run, a benchmark
\* has received the names of the operations that target it and no other.
C5_NonTargetedUnchanged ==
    /\ last # <<>> =>
          \A b \in DOMAIN Before.octobus_results \ TargetedBenchmarks :
              /\ b \in DOMAIN After.octobus_results
              /\ After.octobus_results[b] = Before.octobus_results[b]
              /\ (b \in DOMAIN After.bench_param_names) =
                    (b \in DOMAIN Before.bench_param_names)
              /\ b \in DOMAIN Before.bench_param_names =>
                    After.bench_param_names[b] = Before.bench_param_names[b]
    /\ InitialNamesKnown =>
          \A b \in DOMAIN file_contents[1].octobus_results :
              LET received == Range(file_contents[1].bench_param_names[b])
                                 \ Range(InitialNames(b))
                  targeting == {op.name : op \in {op \in AppliedOperations :
                                                     PrefixMatches(op.targets, b)}}
              IN /\ received \subseteq targeting
                 /\ error = "" => received = targeting \ Range(InitialNames(b))

C5_Witness ==
    /\ Returned
    /\ FileIndex = 1
    /\ Len(applied) = 2
    /\ LastOp.name = "q" /\ LastOp.targets = <<"m", "u">>
    /\ After.octobus_results[b_mt] = Before.octobus_results[b_mt]
    /\ new_contents[1].bench_param_names[b_mt] = <<"x", "p">>
    /\ new_contents[1].bench_param_names[b_mut] = <<"x", "y", "q">>

ReturnedMarker == new_contents[1].octobus_migration_version
Interval(lo, hi) ==
    SelectSeq(all_migrations, LAMBDA m : lo < index_of(m) /\ index_of(m) <= hi)

C7_BootstrapIsTransparent ==
    (Called /\ FileIndex = 0) =>
        /\ signal = "NotReadyForMigrationsError"
        /\ error \notin {"NotReadyForMigrationsError", "MigrationDoesNotExist"}
        /\ \/ pc = "raised" /\ pending = <<>> /\ applied = <<>>
           \/ /\ pending = Interval(1, index_of(target))
              /\ (pc = "applying" /\ applied = <<>>) =>
                    /\ file_contents[1].octobus_migration_version = INITIAL_MIGRATION
                    /\ DOMAIN file_contents[1].octobus_results =
                          DOMAIN data[1].results \cap DOMAIN all_benchmarks_data
              /\ (pc = "returned" /\ pending = <<>>) =>
                    /\ ReturnedMarker = INITIAL_MIGRATION
                    /\ DOMAIN new_contents[1].octobus_results =
                          DOMAIN data[1].results \cap DOMAIN all_benchmarks_data

C7_Witness ==
    /\ Returned
    /\ FileIndex = 0
    /\ signal = "NotReadyForMigrationsError"
    /\ pending = <<u2, u3>>
    /\ ReturnedMarker = u3

\* C8: a marker index that is neither the sentinel nor a registered index makes
\* migrate_file fail with MigrationDoesNotExist, for every target, and nothing
\* is applied to the file.
C8_UnknownMarkerFails ==
    (Called /\ FileIndex # 0 /\ FileIndex \notin all_migrations_indexes(all_migrations)) =>
        /\ pc = "raised"
        /\ error = "MigrationDoesNotExist"
        /\ signal = "MigrationDoesNotExist"
        /\ applied = <<>>
        /\ last = <<>>
        /\ file_contents = data
        /\ new_contents = <<>>

C8_Witness ==
    /\ Called
    /\ FileIndex = 3
    /\ all_migrations = <<u1, u2>>
    /\ target = u1
    /\ error = "MigrationDoesNotExist"

\* C9: construction succeeds only when the sorted indexes are exactly 1..N; a
\* shared index fails it with the conflict error and a gap (or a first index
\* other than 1) with the contiguity error, each being the error reported when
\* the index check is reached and the defect is the only one.
C9_IndexesContiguousUnique ==
    (pc # "new") =>
        /\ (pc # "failed" =>
               /\ ~HasDuplicate /\ ~HasGap
               /\ \A i \in 1..Len(all_migrations) : index_of(all_migrations[i]) = i)
        /\ (HasDuplicate \/ HasGap => pc = "failed")
        /\ (error = "UserError: Conflicting migrations index" => HasDuplicate)
        /\ (error = "UserError: Migration indexes should be contiguous" => HasGap)
        /\ (TargetResolves /\ HasDuplicate /\ ~HasGap =>
               error = "UserError: Conflicting migrations index")
        /\ (TargetResolves /\ HasGap /\ ~HasDuplicate =>
               error = "UserError: Migration indexes should be contiguous")
        /\ (TargetResolves /\ ~HasGap /\ ~HasDuplicate => pc # "failed")

C9_Witness ==
    /\ pc = "failed"
    /\ Range(found) = {u1, u2, u2c}
    /\ error = "UserError: Conflicting migrations index"

\* C10: no unit found fails with NoMigrationFilesFound; no target name resolves
\* to the highest-index unit; an unregistered target name fails with
\* UnknownTarget; otherwise the target is the named unit.  A constructed
\* Executor has a non-empty registry and a registered target.
C10_TargetResolution ==
    (pc # "new") =>
        /\ (found = <<>> => pc = "failed" /\ error = "NoMigrationFilesFound")
        /\ (found # <<>> /\ target_name # NoTarget /\ target_name \notin Range(found) =>
               pc = "failed" /\ error = "UnknownTarget")
        /\ (TargetResolves /\ target_name = NoTarget =>
               /\ target \in Range(found)
               /\ \A i \in 1..Len(found) : index_of(found[i]) <= index_of(target))
        /\ (TargetResolves /\ target_name # NoTarget => target = target_name)
        /\ (pc # "failed" => all_migrations # <<>> /\ target \in Range(all_migrations))

C10_Witness ==
    /\ pc = "ready"
    /\ target_name = NoTarget
    /\ Len(all_migrations) = 3
    /\ target = u3

ColumnInput == applied # <<>> /\ applied[1] = "to_octobus_results"
ObjectInput == applied # <<>> /\ applied[1] = "octobus_results_to_asv_results"
RoundTripDone == Len(applied) = 2 /\ pc = "converted"
RECURSIVE size(_)
size(lists) == IF lists = <<>> THEN 1 ELSE Len(Head(lists)) * size(Tail(lists))
NoRepeat(list) == \A i, j \in 1..Len(list) : list[i] = list[j] => i = j

\* a line of the column form that is a full cartesian expansion over the
\* declared parameter names: one list of distinct values per name, and in
\* every vector column one value per combination
FullExpansionLine(line, param_names) ==
    /\ Len(line) >= 2 /\ Len(line) <= Len(result_columns)
    /\ line[2].list
    /\ Len(line[2].v) = Len(param_names)
    /\ \A i \in 1..Len(line[2].v) : NoRepeat(line[2].v[i])
    /\ \A c \in 1..Len(line) :
          IF result_columns[c] \in SCALAR_COLUMNS THEN ~line[c].list
          ELSE line[c].list /\ (c # 2 => Len(line[c].v) = size(line[2].v))
FullExpansion(x) ==
    \A b \in DOMAIN x.results :
        /\ b \in DOMAIN all_benchmarks_data
        /\ FullExpansionLine(x.results[b], all_benchmarks_data[b])

\* C11: round trip column -> object -> column: for a column-form state whose
\* benchmarks are all in the catalog and whose lines are full cartesian
\* expansions, the two conversions succeed and octobus_results_to_asv_results
\* gives back the same `results`, scalar and vector columns alike.
C11_ColumnRoundTrip ==
    (ColumnInput /\ FullExpansion(data[1])) =>
        /\ pc # "raised"
        /\ Len(applied) = 2 => new_contents[1].results = data[1].results

\* the values of parameter `name` over a record list, in first-seen order
seen_values(records, name) == distinct([i \in 1..Len(records) |-> records[i].params[name]])

\* a record list that is the full cartesian product of the per-dimension
\* values, in row-major order of the parameter-name list
FullProduct(records, param_names) ==
    /\ NoRepeat(param_names)
    /\ \A k \in 1..Len(records) : DOMAIN records[k].params = Range(param_names)
    /\ LET values == [j \in 1..Len(param_names) |-> seen_values(records, param_names[j])]
           stride(j) == size(SubSeq(values, j + 1, Len(values)))
       IN /\ Len(records) = size(values)
          /\ \A k \in 1..Len(records), j \in 1..Len(param_names) :
                records[k].params[param_names[j]] =
                    values[j][(((k - 1) \div stride(j)) % Len(values[j])) + 1]
FullProducts(d) ==
    \A b \in DOMAIN d.octobus_results :
        /\ b \in DOMAIN d.bench_param_names
        /\ b \in DOMAIN all_benchmarks_data
        /\ all_benchmarks_data[b] = d.bench_param_names[b]
        /\ FullProduct(d.octobus_results[b], d.bench_param_names[b])

\* C12: round trip object -> column -> object: for an object-form state whose
\* record lists are full cartesian products in row-major order, the two
\* conversions succeed and to_octobus_results gives back, for every benchmark,
\* the same record list: same order, same fields, absent fields still absent.
C12_ObjectRoundTrip ==
    (ObjectInput /\ FullProducts(data[1])) =>
        /\ pc # "raised"
        /\ Len(applied) = 2 =>
              \A b \in DOMAIN data[1].octobus_results :
                  /\ b \in DOMAIN new_contents[1].octobus_results
                  /\ new_contents[1].octobus_results[b] = data[1].octobus_results[b]

NamesBefore(b) == Before.bench_param_names[b]
NamesAfter(b) == After.bench_param_names[b]
Given(neighbour) == neighbour # None
first_index(list, x) == CHOOSE i \in 1..Len(list) : list[i] = x /\ \A j \in 1..(i - 1) : list[j] # x
TargetedInOrder == SelectSeq(items(Before.octobus_results), LAMBDA b : b \in TargetedBenchmarks)

\* C13: position resolution is idempotent: a targeted benchmark whose list
\* already holds `name` keeps its list as it is, whatever insert_after and
\* insert_before are and wherever `name` sits; when every targeted benchmark
\* already holds `name`, forwards raises nothing.
C13_PositionIdempotent ==
    last # <<>> =>
        /\ \A b \in TargetedBenchmarks :
              LastOp.name \in Range(NamesBefore(b)) => NamesAfter(b) = NamesBefore(b)
        /\ (\A b \in TargetedBenchmarks : LastOp.name \in Range(NamesBefore(b))) =>
              last[1].error = ""

\* what position resolution has to raise for a list without `name`
ExpectedError(list) ==
    LET after == LastOp.insert_after
        before == LastOp.insert_before
    IN IF Given(after) /\ after \notin Range(list)
       THEN "UserError: insert_after param not found"
       ELSE IF ~Given(after) /\ Given(before) /\ before \notin Range(list)
       THEN "UserError: insert_before param not found"
       ELSE IF Given(after) /\ Given(before)
               /\ LET i == first_index(list, after) IN
                  i = Len(list) \/ list[i + 1] # before
       THEN "UserError: are not adjacent"
       ELSE ""

\* C14: for lists without `name`, forwards fails at the first targeted
\* benchmark whose neighbours cannot be resolved: 'param not found' when the
\* only neighbour given, or insert_after of two, is absent; 'are not adjacent'
\* when the first insert_after is not immediately followed by insert_before,
\* also when insert_after is the last entry; the list is left unchanged.
C14_PositionErrors ==
    (last # <<>> /\ \A b \in TargetedBenchmarks : LastOp.name \notin Range(NamesBefore(b))) =>
        LET failing == SelectSeq(TargetedInOrder,
                                 LAMBDA b : ExpectedError(NamesBefore(b)) # "")
        IN IF failing = <<>> THEN last[1].error = ""
           ELSE /\ last[1].error = ExpectedError(NamesBefore(failing[1]))
                /\ NamesAfter(failing[1]) = NamesBefore(failing[1])

Handled == Called /\ pc \in {"written", "skipped", "exited", "propagated"}
MissingFromCatalog ==
    FileIndex = 0 /\ \E b \in DOMAIN data[1].results : b \notin DOMAIN all_benchmarks_data
InvalidOperation ==
    \/ error \in {"UserError: Values must be unique", "UserError: Wrong default value"}
    \/ last # <<>> /\ last[1].error # ""
LastEvent == journal[Len(journal)]
Events(kind) == {i \in 1..Len(journal) : journal[i].event = kind}

\* C15: when the migration of a file meets a per-file data error (a benchmark
\* of the file missing from the catalog during bootstrap; an operation with
\* duplicate values, a default outside the values, neighbours that are not
\* adjacent or a missing neighbour), Migrate.run logs a warning for the file,
\* does not rewrite it and goes on with the loop.
C15_DataErrorSkipsFile ==
    (Handled /\ (MissingFromCatalog \/ InvalidOperation)) =>
        /\ pc = "skipped"
        /\ LastEvent = [event |-> "warning", file |-> nfiles]
        /\ \A i \in Events("write_json") : journal[i].file # nfiles

Aborted == pc \in {"exited", "propagated"}

\* C16: a structural error aborts the whole batch: no migration unit found or
\* an unknown target makes the constructor's exception leave Migrate.run
\* before any file is read; a file whose marker is not registered ends the run
\* with exit(1).  From the failure on nothing else happens: the abort is the
\* last event, no further file is migrated or written, the failing file is not
\* written and benchmarks.json is not regenerated; earlier writes remain.
C16_StructuralErrorAborts ==
    /\ error \in {"NoMigrationFilesFound", "UnknownTarget"} =>
          /\ pc \in {"failed", "propagated"}
          /\ nfiles = 0
          /\ pc = "propagated" => journal = <<[event |-> "propagate", file |-> 0]>>
    /\ error = "MigrationDoesNotExist" =>
          /\ pc \in {"raised", "exited"}
          /\ pc = "exited" => LastEvent = [event |-> "exit", file |-> nfiles]
    /\ \A i \in Events("exit") \cup Events("propagate") :
          /\ i = Len(journal)
          /\ Aborted
          /\ journal[i].file = nfiles
          /\ \A j \in 1..(i - 1) :
                journal[j].event \in {"write_json", "warning"} /\ journal[j].file < nfiles
    /\ Aborted => Events("regenerate") = {}

C16_Witness ==
    /\ pc = "exited"
    /\ error = "MigrationDoesNotExist"
    /\ journal = <<[event |-> "write_json", file |-> 1], [event |-> "exit", file |-> 2]>>

\* C17: the outcome of migrate_file for a file (the state returned or the
\* exception raised) is the outcome of migrating that file alone with an
\* Executor holding the catalog as it was at construction, whatever files the
\* same Executor migrated earlier
Alone == migrate_file(all_migrations, target, disk, Catalog, data[1])

C17_FilesIndependent ==
    (Called /\ (Returned \/ pc = "raised")) =>
        /\ error = Alone.error
        /\ new_contents = Alone.new_contents

\* C18: the catalog held by the Executor is, after any sequence of
\* migrate_file calls, the catalog it was constructed with
C18_CatalogReadOnly == all_benchmarks_data = Catalog

\* C19: for a file without marker to which at least one operation is applied,
\* the state migrate_file returns holds, for
\* every benchmark of the file that the catalog declares, a record for each
\* record of the cartesian expansion of the file's columns, with the same
\* result, the same parameters, the default value of every parameter added by
\* the migrations applied, and a null version; the column form lists the
\* dimensions of the file first and one added dimension after them for every
\* parameter added.
OperationsRun == [i \in 1..Len(applied) |-> migrations_modules[applied[i][1]][applied[i][2]]]
AddedTo(b) == SelectSeq(OperationsRun, LAMBDA op : is_benchmark_targeted(op, b))
Expansion(b) == explode_bench(Catalog[b], data[1].result_columns, data[1].results[b]).records
params_cell(line) == line[2].v

C19_BootstrapEndToEnd ==
    (Returned /\ FileIndex = 0 /\ applied # <<>>) =>
        \A b \in DOMAIN data[1].results \cap DOMAIN Catalog :
            LET new == new_contents[1]
                original == params_cell(data[1].results[b])
            IN /\ b \in DOMAIN new.octobus_results
               /\ \A i \in 1..Len(Expansion(b)) :
                     \E j \in 1..Len(new.octobus_results[b]) :
                         LET r == Expansion(b)[i]
                             n == new.octobus_results[b][j]
                         IN /\ n.result = r.result
                            /\ extends(n.params, r.params)
                            /\ \A k \in 1..Len(AddedTo(b)) :
                                  /\ AddedTo(b)[k].name \in DOMAIN n.params
                                  /\ n.params[AddedTo(b)[k].name] = AddedTo(b)[k].default
                            /\ "version" \in DOMAIN n /\ n.version = Null
               /\ SubSeq(params_cell(new.results[b]), 1, Len(original)) = original
               /\ Len(params_cell(new.results[b])) =
                     Len(original) + Cardinality({AddedTo(b)[k].name : k \in 1..Len(AddedTo(b))})

\* C20: when the file carries a registered marker whose index is at least
\* the target's, migrate_file applies no operation and returns the state it
\* was given (records, parameter-name lists, column form and marker), and
\* migrate_file on that output with the same target returns it again.
NothingPending == Returned /\ FileIndex # 0 /\ FileIndex >= index_of(target)

C20_NothingPendingUnchanged ==
    NothingPending =>
        /\ pending = <<>>
        /\ applied = <<>>
        /\ new_contents = data
        /\ migrate_file(all_migrations, target, disk, Catalog, new_contents[1]) =
              [error |-> "", new_contents |-> new_contents]

C20_Witness ==
    /\ NothingPending
    /\ target = u1
    /\ data[1].octobus_migration_version = u1
    /\ Len(new_contents[1].octobus_results[b_mt]) = 2

\* C21: migrate_file applies the operations of the pending migrations in
\* ascending migration index, and within a migration in list order, each
\* once: what has been applied is at any time the beginning of that list,
\* and all of it when migrate_file returns; an operation whose insert_after
\* names the parameter of an operation applied before it to every benchmark
\* finds that parameter.
InOrder ==
    concat([i \in 1..Len(pending) |->
               [k \in 1..Len(disk[pending[i]]) |-> <<pending[i], k>>]])
AppliedBefore == {OperationsRun[i] : i \in 1..(Len(applied) - 1)}

C21_AppliedInOrder ==
    (Called /\ applied # <<>>) =>
        /\ Len(applied) <= Len(InOrder)
        /\ applied = SubSeq(InOrder, 1, Len(applied))
        /\ \A i, j \in 1..Len(applied) :
              i < j =>
                 \/ index_of(applied[i][1]) < index_of(applied[j][1])
                 \/ applied[i][1] = applied[j][1] /\ applied[i][2] < applied[j][2]
        /\ Returned => applied = InOrder
        /\ (\E op \in AppliedBefore : op.name = LastOp.insert_after /\ op.targets = <<>>) =>
              last[1].error # "UserError: insert_after param not found"

C21_Witness ==
    /\ Returned
    /\ applied = <<<<u2, 1>>, <<u2, 2>>, <<u3, 1>>, <<u3, 2>>>>
    /\ LastOp.insert_after = "q"
    /\ new_contents[1].bench_param_names[b_mt] = <<"x", "p", "q", "r">>

\* C22: a forwards that succeeds puts a `name` that a targeted benchmark's
\* list does not hold at the end of the list when no neighbour is given,
\* immediately after the first insert_after when it is given (alone or with
\* an insert_before that immediately follows it), immediately before the
\* first insert_before when only that is given; the list grows by one entry
\* and the other entries keep their order.
placed_at(list, position, x) ==
    SubSeq(list, 1, position - 1) \o <<x>> \o SubSeq(list, position, Len(list))
ExpectedPosition(list) ==
    IF Given(LastOp.insert_after) THEN first_index(list, LastOp.insert_after) + 1
    ELSE IF Given(LastOp.insert_before) THEN first_index(list, LastOp.insert_before)
    ELSE Len(list) + 1
Inserted == {b \in TargetedBenchmarks : LastOp.name \notin Range(NamesBefore(b))}

C22_PositionResolved ==
    Forwarded =>
        \A b \in Inserted :
            /\ Given(LastOp.insert_after) => LastOp.insert_after \in Range(NamesBefore(b))
            /\ Given(LastOp.insert_before) => LastOp.insert_before \in Range(NamesBefore(b))
            /\ NamesAfter(b) = placed_at(NamesBefore(b), ExpectedPosition(NamesBefore(b)), LastOp.name)
            /\ Len(NamesAfter(b)) = Len(NamesBefore(b)) + 1
            /\ SelectSeq(NamesAfter(b), LAMBDA n : n # LastOp.name) = NamesBefore(b)
            /\ (Given(LastOp.insert_after) /\ Given(LastOp.insert_before)) =>
                  NamesAfter(b)[ExpectedPosition(NamesBefore(b)) + 1] = LastOp.insert_before

C22_Witness ==
    /\ Forwarded
    /\ LastOp.insert_after = "x" /\ LastOp.insert_before = "y"
    /\ NamesBefore(b_mt) = <<"y", "x", "y", "x">>
    /\ NamesAfter(b_mt) = <<"y", "x", "p", "y", "x">>

\* C23: in the column form octobus_results_to_asv_results returns, the value
\* of a scalar column (version, started_at, duration) of a benchmark is the
\* value of the first record of the benchmark that has the field; later
\* records do not overwrite it.
column_index(column) == CHOOSE c \in 1..Len(result_columns) : result_columns[c] = column
FirstHaving(records, column) ==
    CHOOSE i \in 1..Len(records) :
        /\ column \in DOMAIN records[i]
        /\ \A j \in 1..(i - 1) : column \notin DOMAIN records[j]

C23_ScalarFirstWins ==
    (ObjectInput /\ file_contents # <<>>) =>
        \A b \in DOMAIN data[1].octobus_results : \A column \in SCALAR_COLUMNS :
            LET records == data[1].octobus_results[b]
                line == file_contents[1].results[b]
            IN (\E i \in 1..Len(records) : column \in DOMAIN records[i]) =>
                  /\ Len(line) >= column_index(column)
                  /\ ~line[column_index(column)].list
                  /\ line[column_index(column)].v =
                        records[FirstHaving(records, column)][column]

\* C24: to_octobus_results gives every benchmark of the catalog one record
\* per element of the cartesian product of the value lists of its `params`
\* column, in row-major order of the declared names: record k has the k-th
\* combination as params, the k-th element of every list column of the line
\* (null when the list is shorter), the value of every non-list column, and
\* no field for a declared column the line does not have.
combination(names, lists, k) ==
    [nm \in {names[j] : j \in 1..Len(lists)} |->
        LET j == CHOOSE j \in 1..Len(lists) : names[j] = nm
            stride == size(SubSeq(lists, j + 1, Len(lists)))
        IN lists[j][(((k - 1) \div stride) % Len(lists[j])) + 1]]
expanded(line, names, k) ==
    [f \in {result_columns[c] : c \in 1..Len(line)} |->
        IF f = "params" THEN combination(names, params_cell(line), k)
        ELSE LET cell == line[column_index(f)] IN
             IF ~cell.list THEN cell.v
             ELSE IF k <= Len(cell.v) THEN cell.v[k] ELSE Null]
Decoded(input, output) ==
    \A b \in DOMAIN input.results \cap DOMAIN all_benchmarks_data :
        LET line == input.results[b]
            n == size(params_cell(line))
            records == IF b \in DOMAIN output.octobus_results
                       THEN output.octobus_results[b] ELSE <<>>
        IN /\ Len(records) = n
           /\ \A k \in 1..n : records[k] = expanded(line, all_benchmarks_data[b], k)

C24_CartesianExpansion ==
    /\ (ColumnInput /\ file_contents # <<>>) => Decoded(data[1], file_contents[1])
    /\ (ObjectInput /\ RoundTripDone) => Decoded(file_contents[1], new_contents[1])

C24_Witness ==
    /\ ColumnInput /\ file_contents # <<>>
    /\ params_cell(data[1].results[b_mt]) = << <<"'a'", "'b'">>, <<"1", "2">> >>
    /\ Len(data[1].results[b_mt]) = 5
    /\ data[1].results[b_mt][1].v = <<"0.5", "0.7", Null>>
    /\ file_contents[1].octobus_results[b_mt][2] =
          [params |-> [x |-> "'a'", y |-> "2"], result |-> "0.7", version |-> "v1",
           started_at |-> "t0", duration |-> "d0"]
    /\ file_contents[1].octobus_results[b_mt][4].result = Null
    /\ file_contents[1].octobus_results[b_mt][4].params = [x |-> "'b'", y |-> "2"]

\* C25: when the column form of a file without marker has, for every
\* benchmark, vector columns as long as the product of the sizes of the value
\* lists of its `params` column, so has the column form migrate_file returns,
\* whatever operations were applied.
ColumnLengths(state) ==
    \A b \in DOMAIN state.results :
        LET line == state.results[b] IN
        /\ Len(line) >= 2
        /\ \A c \in 1..Len(line) :
              (c # 2 /\ line[c].list) => Len(line[c].v) = size(params_cell(line))

C25_ColumnLengths ==
    (Returned /\ FileIndex = 0 /\ ColumnLengths(data[1])) => ColumnLengths(new_contents[1])

\* C26: after the bootstrap of a file and after every operation applied to
\* it without error, every record of every benchmark has its parameter names
\* among the names the state declares for the benchmark.
Bootstrapped == Called /\ signal = "NotReadyForMigrationsError" /\ error = ""
ParamsDeclared(state) ==
    \A b \in DOMAIN state.octobus_results :
        /\ b \in DOMAIN state.bench_param_names
        /\ \A i \in 1..Len(state.octobus_results[b]) :
              DOMAIN state.octobus_results[b][i].params \subseteq
                  Range(state.bench_param_names[b])

C26_ParamsDeclared ==
    Bootstrapped =>
        /\ ParamsDeclared(file_contents[1])
        /\ Returned => ParamsDeclared(new_contents[1])

C26_Witness ==
    /\ Bootstrapped /\ Returned
    /\ Len(applied) = 4
    /\ b_mut \in DOMAIN new_contents[1].octobus_results
    /\ new_contents[1].bench_param_names[b_mut] = <<"q", "r">>
    /\ DOMAIN new_contents[1].octobus_results[b_mut][1].params = {"q", "r"}
    /\ DOMAIN new_contents[1].octobus_results[b_mt][1].params = {"x", "p", "q", "r"}

\* C27: the bootstrap of a file skips a benchmark that the catalog does not
\* have, without raising: the object form holds no record list and no
\* parameter-name list for it, and holds for the other benchmarks what the
\* conversion of the file without that benchmark gives.
JustBootstrapped ==
    /\ Called /\ signal = "NotReadyForMigrationsError"
    /\ applied = <<>> /\ file_contents # <<>>
Unknown == DOMAIN data[1].results \ DOMAIN all_benchmarks_data
WithoutUnknown ==
    [data[1] EXCEPT !.results = [b \in DOMAIN data[1].results \ Unknown |-> data[1].results[b]]]

C27_UnknownBenchmarkSkipped ==
    JustBootstrapped =>
        LET alone == to_octobus_results(all_benchmarks_data, WithoutUnknown) IN
        /\ error \notin {"KeyError", "AssertionError"}
        /\ DOMAIN file_contents[1].octobus_results \cap Unknown = {}
        /\ DOMAIN file_contents[1].bench_param_names \cap Unknown = {}
        /\ alone.error = ""
        /\ file_contents[1].octobus_results = alone.data.octobus_results
        /\ file_contents[1].bench_param_names = alone.data.bench_param_names

C27_Witness ==
    /\ JustBootstrapped
    /\ pc = "applying"
    /\ DOMAIN data[1].results = {b_mt, b_z}
    /\ DOMAIN file_contents[1].octobus_results = {b_mt}
    /\ DOMAIN file_contents[1].bench_param_names = {b_mt}

\* C28: the state migrate_file returns for a file whose record lists were
\* non-empty full cartesian products in row-major order, every record of a
\* benchmark with the same fields, after operations with at least one
\* candidate value, is self-consistent: decoding
\* its column form with to_octobus_results, the returned parameter-name lists
\* being the dimension order, gives for every benchmark as many records as
\* the returned object form holds, record for record with the same
\* parameters, the same result and the same statistics.
MEASURED ==
    {"result", "stats_ci_99_a", "stats_ci_99_b", "stats_q_25", "stats_q_75",
     "stats_number", "stats_repeat", "samples", "profile"}
get(record, field) == IF field \in DOMAIN record THEN record[field] ELSE Null
StartedFull ==
    \A b \in DOMAIN data[1].octobus_results :
        LET records == data[1].octobus_results[b] IN
        /\ b \in DOMAIN data[1].bench_param_names
        /\ records # <<>>
        /\ \A i \in 1..Len(records) : DOMAIN records[i] = DOMAIN records[1]
        /\ FullProduct(records, data[1].bench_param_names[b])
SameMeasurements(decoded, records) ==
    /\ Len(decoded) = Len(records)
    /\ \A k \in 1..Len(records) :
          /\ decoded[k].params = records[k].params
          /\ \A f \in MEASURED : get(decoded[k], f) = get(records[k], f)

C28_ReturnedStateConsistent ==
    (Returned /\ applied # <<>> /\ FileIndex # 0 /\ StartedFull
       /\ \A op \in AppliedOperations : op.values # <<>>) =>
        LET new == new_contents[1] IN
        \A b \in DOMAIN new.octobus_results :
            LET decoded == explode_bench(new.bench_param_names[b], new.result_columns,
                                         new.results[b])
            IN /\ decoded.error = ""
               /\ SameMeasurements(decoded.records, new.octobus_results[b])

====
